---- MODULE Spec2Model ----
(***************************************************************************)
(* Model of assets/generate_icon.py: generate_icon(output_dir, size) and   *)
(* the script's entry path.  The canvas is observed at a set of probe      *)
(* pixels; every draw.ellipse call is recorded in the log ops.             *)
(*                                                                         *)
(* Python floats are modelled in integer arithmetic.  Every operator that  *)
(* stands for a float expression states the rounding it reproduces; the    *)
(* integer forms agree with the float code for every size in 0..2147.      *)
(***************************************************************************)
EXTENDS Integers, Sequences, FiniteSets

VARIABLES pc, entry, size, output_dir, center, max_radius, line_width, img,
          canvas, i, points, ops, fs, printed, appicon, icon_path,
          exit_status, history

vars == << pc, entry, size, output_dir, center, max_radius, line_width, img,
           canvas, i, points, ops, fs, printed, appicon, icon_path,
           exit_status, history >>

(* ---------------------------- bounds ----------------------------------- *)

\* Every size 1..MaxSmallSize is modelled, next to the sizes of LargeSizes.
MaxSmallSize == 3

\* Probe pixels lie on a (ProbeGrid+1) x (ProbeGrid+1) grid over the canvas.
ProbeGrid == 4

LargeSizes == {10, 42, 63, 64, 128, 256, 512, 1024}

Sizes == (1..MaxSmallSize) \cup LargeSizes

\* Sizes used when generate_icon is called a second time.
RerunSizes == {3, 64, 1024}

Dirs == {"icon_output", "elsewhere"}

(* ------------------------ program constants ---------------------------- *)

RefSize == 1024
NumLayers == 30
NumPoints == 150
BaseLineWidth == 16
MinSteps == 8
StepLength == 4
Micro == 1000000
StartX == 200
StartY == 750
EndX == 800
EndY == 250
WaveAmplitude == 80

BaseFill == <<99, 102, 241>>
White == <<255, 255, 255>>

CurveXMicro ==
    << 200000000, 206006386, 212003467, 217989987, 223964705, 229926392, 235873830, 241805818,
       247721169, 253618710, 259497287, 265355759, 271193006, 277007926, 282799433, 288566465,
       294307976, 300022944, 305710367, 311369266, 316998682, 322597682, 328165355, 333700816,
       339203203, 344671679, 350105433, 355503682, 360865666, 366190654, 371477942, 376726853,
       381936739, 387106980, 392236982, 397326185, 402374053, 407380082, 412343797, 417264753,
       422142535, 426976757, 431767065, 436513134, 441214670, 445871409, 450483118, 455049595,
       459570669, 464046197, 468476069, 472860205, 477198555, 481491101, 485737853, 489938852,
       494094169, 498203905, 502268191, 506287187, 510261081, 514190092, 518074466, 521914479,
       525710433, 529462660, 533171517, 536837391, 540460693, 544041862, 547581362, 551079684,
       554537341, 557954873, 561332845, 564671843, 567972477, 571235382, 574461213, 577650645,
       580804377, 583923129, 587007637, 590058660, 593076974, 596063374, 599018672, 601943697,
       604839295, 607706327, 610545668, 613358210, 616144856, 618906523, 621644142, 624358652,
       627051007, 629722168, 632373108, 635004807, 637618256, 640214449, 642794392, 645359092,
       647909566, 650446832, 652971914, 655485839, 657989636, 660484336, 662970972, 665450575,
       667924179, 670392814, 672857511, 675319297, 677779195, 680238227, 682697409, 685157751,
       687620260, 690085934, 692555765, 695030737, 697511826, 700000000, 702496215, 705001419,
       707516548, 710042528, 712580272, 715130681, 717694642, 720273029, 722866704, 725476510,
       728103279, 730747824, 733410946, 736093424, 738796025, 741519496, 744264566, 747031947,
       749822331, 752636391, 755474781, 758338136, 761227070, 764142175 >>

CurveYMicro ==
    << 798000000, 794584349, 791132174, 787643665, 784119037, 780558534, 776962426, 773331011,
       769664614, 765963583, 762228297, 758459155, 754656585, 750821039, 746952992, 743052944,
       739121419, 735158961, 731166141, 727143548, 723091795, 719011515, 714903360, 710768005,
       706606141, 702418481, 698205752, 693968701, 689708093, 685424706, 681119335, 676792791,
       672445898, 668079492, 663694425, 659291560, 654871770, 650435939, 645984963, 641519746,
       637041200, 632550244, 628047808, 623534824, 619012232, 614480975, 609942002, 605396265,
       600844718, 596288315, 591728016, 587164776, 582599553, 578033303, 573466979, 568901533,
       564337913, 559777063, 555219921, 550667421, 546120491, 541580050, 537047011, 532522278,
       528006747, 523501303, 519006821, 514524166, 510054189, 505597732, 501155621, 496728671,
       492317680, 487923434, 483546703, 479188241, 474848784, 470529054, 466229754, 461951570,
       457695167, 453461195, 449250281, 445063036, 440900047, 436761883, 432649092, 428562199,
       424501710, 420468105, 416461845, 412483368, 408533088, 404611397, 400718663, 396855230,
       393021419, 389217526, 385443825, 381700563, 377987964, 374306229, 370655531, 367036021,
       363447824, 359891042, 356365749, 352871998, 349409816, 345979204, 342580139, 339212576,
       335876442, 332571642, 329298056, 326055542, 322843931, 319663034, 316512636, 313392500,
       310302366, 307241951, 304210952, 301209042, 298235871, 295291072, 292374253, 289485004,
       286622894, 283787471, 280978266, 278194789, 275436533, 272702972, 269993562, 267307745,
       264644942, 262004561, 259385994, 256788616, 254211791, 251654864, 249117173, 246598037,
       244096766, 241612659, 239145002, 236693071, 234256132, 231833443 >>

(* ------------------------- pure functions ------------------------------ *)

Max(a, b) == IF a >= b THEN a ELSE b

Abs(a) == IF a >= 0 THEN a ELSE -a

\* int(math.sqrt(n)) for n >= 0
ISqrt(n) == CHOOSE s \in 0..n : s * s <= n /\ (s + 1) * (s + 1) > n

\* The fraction 0.72 mistyped as 0.27.
MaxRadiusSmall(S) == (S * 27) \div 100

\* max_radius = int(size * 0.72)
MaxRadius(S) == (S * 72) \div 100

\* The layer ratio inverted: (i + 1) / num_layers in place of 1 - i / num_layers.
RadiusGrowing(mr, k) == (mr * (k + 1)) \div NumLayers

\* Layer indices i for which the double 1 - i/30 lies below (30 - i)/30 and
\* the product max_radius * (1 - i/30), when its exact value is an integer,
\* rounds to a double below that integer for every max_radius < 1600.
ShortLayers == 23..29

\* max_radius values (< 1600) for which max_radius * (1 - 7/30), an integer
\* when computed exactly, is a double below that integer.
Short7 == {150, 270, 300, 330, 510, 540, 570, 600, 630, 660, 990, 1020, 1050,
           1080, 1110, 1140, 1170, 1200, 1230, 1260, 1290, 1320}

\* The same for max_radius * (1 - 9/30).
Short9 == {90, 170, 180, 330, 340, 350, 360, 650, 660, 670, 680, 690, 700,
           710, 720, 730, 1290, 1300, 1310, 1320, 1330, 1340, 1350, 1360,
           1370, 1380, 1390, 1400, 1410, 1420, 1430, 1440, 1450, 1460}

RoundsShort(mr, k) ==
    /\ mr > 0
    /\ (mr * (NumLayers - k)) % NumLayers = 0
    /\ \/ k \in ShortLayers
       \/ k = 7 /\ mr \in Short7
       \/ k = 9 /\ mr \in Short9

\* radius = int(max_radius * (1 - i / num_layers))
Radius(mr, k) ==
    ((mr * (NumLayers - k)) \div NumLayers) - (IF RoundsShort(mr, k) THEN 1 ELSE 0)

\* (r, g, b) of layer k: int(99 + 40*ratio), int(102 - 10*ratio), int(241 + 5*ratio)
LayerColor(k) ==
    << (99 * NumLayers + (139 - 99) * k) \div NumLayers,
       (102 * NumLayers + (92 - 102) * k) \div NumLayers,
       (241 * NumLayers + (246 - 241) * k) \div NumLayers >>

\* line_width = int(16 * scale), scale = size / 1024.0
LineWidth(S) == (BaseLineWidth * S) \div RefSize

\* scale computed with integer division, size // 1024.
ScaledIntDiv(v, S) == (v \div Micro) * (S \div RefSize)

\* The coordinate left unscaled.
Unscaled(v, S) == v \div Micro

\* int((base + offset) * scale) for base + offset given in millionths
Scaled(v, S) ==
    ((v \div Micro) * S + ((v % Micro) * S) \div Micro) \div RefSize

CoordX(k, S) == Scaled(CurveXMicro[k + 1], S)

CoordY(k, S) == Scaled(CurveYMicro[k + 1], S)

\* No taper: every circle gets line_width.
StrokeWidthFlat(lw, n, idx, num, den) == lw

\* The two taper factors exchanged.
StrokeWidthSwapped(lw, n, idx, num, den) ==
    LET lt(c) == idx * den + num < c * den
        gt(c) == idx * den + num > c * den
    IN  IF lt(10) \/ gt(n - 10) THEN (lw * 8) \div 10
        ELSE IF lt(20) \/ gt(n - 20) THEN (lw * 6) \div 10
        ELSE lw

\* current_width at stroke position idx + num/den, over n points:
\*   p < 10 or p > n - 10 -> int(line_width * 0.6)
\*   p < 20 or p > n - 20 -> int(line_width * 0.8)
\*   otherwise            -> line_width
StrokeWidth(lw, n, idx, num, den) ==
    LET lt(c) == idx * den + num < c * den
        gt(c) == idx * den + num > c * den
    IN  IF lt(10) \/ gt(n - 10) THEN (lw * 6) \div 10
        ELSE IF lt(20) \/ gt(n - 20) THEN (lw * 8) \div 10
        ELSE lw

\* steps = max(int(math.sqrt((x2-x1)**2 + (y2-y1)**2) / 4), 8)
Steps(p1, p2) ==
    Max(ISqrt((p2[1] - p1[1]) * (p2[1] - p1[1])
              + (p2[2] - p1[2]) * (p2[2] - p1[2])) \div StepLength, MinSteps)

\* int(a + (b - a) * (j / steps)), for a, b >= 0
Lerp(a, b, j, steps) == (a * steps + (b - a) * j) \div steps

\* The canvas created with an alpha channel.
NewImageAlpha(S) == [width |-> S, height |-> S, mode |-> "RGBA"]

\* Image.new('RGB', (size, size), color=(99, 102, 241))
NewImage(S) == [width |-> S, height |-> S, mode |-> "RGB"]

\* The pixels a filled draw.ellipse([cx-r, cy-r, cx+r, cy+r]) covers.
InCircle(p, cx, cy, r) ==
    (p[1] - cx) * (p[1] - cx) + (p[2] - cy) * (p[2] - cy) <= r * r

Paint(cv, cx, cy, r, fill) ==
    [p \in DOMAIN cv |-> IF InCircle(p, cx, cy, r) THEN fill ELSE cv[p]]

\* Probe pixels of an S x S canvas: a grid that includes the corners, the
\* center, and the pixels of the first, middle and last curve sample.
GridCoords(S) == {(a * (S - 1)) \div ProbeGrid : a \in 0..ProbeGrid} \cup {S \div 2}

Probes(S) ==
    (GridCoords(S) \X GridCoords(S))
        \cup {<<CoordX(k, S), CoordY(k, S)>> : k \in {0, NumPoints \div 2, NumPoints - 1}}

\* f"AppIcon-{size}x{size}.png" inside dir
IconPath(dir, S) == <<dir, "AppIcon", S, S>>

AppIconDir == "AppIcon.appiconset"

DestPath == <<AppIconDir, "AppIcon", RefSize, RefSize>>

\* The point list kept across calls instead of being created anew.
StalePoints == points

\* points = []   (draw_elegant_curve starts from an empty local list)
FreshPoints == <<>>

\* A recorded draw.ellipse call is the tuple
\*   << phase, i, j, n, x, y, w, r, fill >>
\* phase "layer", "sample" or "sub"; loop index i; sub-step j of n (0 of 1
\* outside the sub-step loop); center (x, y); width w; the half-extent r of
\* the bounding box [x - r, y - r, x + r, y + r]; the fill colour.
OpPh(o) == o[1]

OpI(o) == o[2]

OpJ(o) == o[3]

OpN(o) == o[4]

OpX(o) == o[5]

OpY(o) == o[6]

OpW(o) == o[7]

OpR(o) == o[8]

OpFill(o) == o[9]

LayerOp(k, r) ==
    << "layer", k, 0, 1, center, center, 2 * r, r, LayerColor(k) >>

StrokeOp(ph, k, j, n, x, y, w) ==
    << ph, k, j, n, x, y, w, w \div 2, White >>

RECURSIVE PaintAll(_, _)
PaintAll(cv, os) ==
    IF os = <<>> THEN cv
    ELSE PaintAll(Paint(cv, OpX(Head(os)), OpY(Head(os)), OpR(Head(os)), OpFill(Head(os))), Tail(os))

(* ------------------------------ state ---------------------------------- *)

NoImage == [width |-> 0, height |-> 0, mode |-> "none"]

Init ==
    /\ pc = "start"
    /\ entry = FALSE
    /\ size = 0
    /\ output_dir = "none"
    /\ center = 0
    /\ max_radius = 0
    /\ line_width = 0
    /\ img = NoImage
    /\ canvas = << >>
    /\ i = 0
    /\ points = << >>
    /\ ops = << >>
    /\ fs = [dirs |-> {}, files |-> {}]
    /\ printed = << >>
    /\ appicon = "unchecked"
    /\ icon_path = << >>
    /\ exit_status = -1
    /\ history = {}

(* ------------------------- generate_icon ------------------------------- *)

\* Lines 21-34: makedirs, scale, center, the new canvas, max_radius.
GenerateIcon(dir, S) ==
    /\ pc = "start"
    /\ pc' = "layers"
    /\ output_dir' = dir
    /\ size' = S
    /\ fs' = [fs EXCEPT !.dirs = @ \cup {dir}]
    /\ center' = S \div 2
    /\ img' = NewImage(S)
    /\ canvas' = [p \in Probes(S) |-> BaseFill]
    /\ max_radius' = MaxRadius(S)
    /\ i' = 0
    /\ ops' = << >>
    /\ UNCHANGED << line_width, points, printed, appicon, icon_path,
                    exit_status, history >>

\* The script's entry path, lines 134-138.
Main ==
    /\ entry' = TRUE
    /\ GenerateIcon("icon_output", RefSize)

\* A call of generate_icon by an importing caller.
Call(dir, S) ==
    /\ entry' = FALSE
    /\ GenerateIcon(dir, S)

\* Lines 53-58: line_width, and draw_elegant_curve's empty point list.
EnterCurve ==
    /\ line_width' = LineWidth(size)
    /\ points' = FreshPoints

\* One iteration of the background loop that draws its layer (lines 36-49).
LayerStep ==
    /\ pc = "layers"
    /\ i < NumLayers
    /\ Radius(max_radius, i) > 0
    /\ canvas' = Paint(canvas, center, center, Radius(max_radius, i), LayerColor(i))
    /\ ops' = Append(ops, LayerOp(i, Radius(max_radius, i)))
    /\ IF i + 1 < NumLayers
       THEN /\ i' = i + 1
            /\ UNCHANGED << pc, line_width, points >>
       ELSE /\ i' = 0
            /\ pc' = "sample"
            /\ EnterCurve
    /\ UNCHANGED << entry, size, output_dir, center, max_radius, img, fs,
                    printed, appicon, icon_path, exit_status, history >>

\* The iteration that finds radius <= 0 and breaks (lines 38-39).
LayerBreak ==
    /\ pc = "layers"
    /\ i < NumLayers
    /\ Radius(max_radius, i) <= 0
    /\ i' = 0
    /\ pc' = "sample"
    /\ EnterCurve
    /\ UNCHANGED << entry, size, output_dir, center, max_radius, img, canvas,
                    ops, fs, printed, appicon, icon_path, exit_status, history >>

\* One iteration of the sampling loop (lines 60-81).
SampleStep ==
    /\ pc = "sample"
    /\ i < NumPoints
    /\ points' = Append(points, <<CoordX(i, size), CoordY(i, size)>>)
    /\ IF i + 1 < NumPoints
       THEN i' = i + 1 /\ pc' = pc
       ELSE i' = 0 /\ pc' = "stroke"
    /\ UNCHANGED << entry, size, output_dir, center, max_radius, line_width,
                    img, canvas, ops, fs, printed, appicon, icon_path,
                    exit_status, history >>

\* One iteration of the loop that draws a circle at every sample (lines 84-97).
StrokeStep ==
    /\ pc = "stroke"
    /\ i < Len(points)
    /\ LET x == points[i + 1][1]
           y == points[i + 1][2]
           w == StrokeWidth(line_width, Len(points), i, 0, 1)
       IN  /\ canvas' = Paint(canvas, x, y, w \div 2, White)
           /\ ops' = Append(ops, StrokeOp("sample", i, 0, 1, x, y, w))
    /\ IF i + 1 < Len(points)
       THEN i' = i + 1 /\ pc' = pc
       ELSE i' = 0 /\ pc' = IF Len(points) > 1 THEN "connect" ELSE "save"
    /\ UNCHANGED << entry, size, output_dir, center, max_radius, line_width,
                    img, points, fs, printed, appicon, icon_path,
                    exit_status, history >>

\* The circles of the sub-steps 1..steps-1 of segment k (lines 101-121).
SegmentOps(k) ==
    LET p1 == points[k + 1]
        p2 == points[k + 2]
        steps == Steps(p1, p2)
    IN  [j \in 1..(steps - 1) |->
            StrokeOp("sub", k, j, steps,
                     Lerp(p1[1], p2[1], j, steps), Lerp(p1[2], p2[2], j, steps),
                     StrokeWidth(line_width, Len(points), k, j, steps))]

\* One iteration of the loop that connects consecutive samples (lines 100-121).
ConnectStep ==
    /\ pc = "connect"
    /\ i < Len(points) - 1
    /\ canvas' = PaintAll(canvas, SegmentOps(i))
    /\ ops' = ops \o SegmentOps(i)
    /\ IF i + 1 < Len(points) - 1
       THEN i' = i + 1 /\ pc' = pc
       ELSE i' = 0 /\ pc' = "save"
    /\ UNCHANGED << entry, size, output_dir, center, max_radius, line_width,
                    img, points, fs, printed, appicon, icon_path,
                    exit_status, history >>

\* Lines 127-131: save the PNG, print, return the path.
Save ==
    /\ pc = "save"
    /\ icon_path' = IconPath(output_dir, size)
    /\ fs' = [fs EXCEPT !.files = @ \cup {IconPath(output_dir, size)}]
    /\ printed' = Append(printed, "generated")
    /\ pc' = IF entry THEN "check" ELSE "returned"
    /\ UNCHANGED << entry, size, output_dir, center, max_radius, line_width,
                    img, canvas, i, points, ops, appicon, exit_status, history >>

(* --------------------------- entry path -------------------------------- *)

\* The copy step left out: the message is printed, no file is written.
MainCopyUnchecked ==
    /\ pc = "check"
    /\ appicon' = "directory"
    /\ printed' = printed \o << "copied", "complete" >>
    /\ exit_status' = 0
    /\ pc' = "done"
    /\ UNCHANGED << entry, size, output_dir, center, max_radius, line_width,
                    img, canvas, i, points, ops, fs, icon_path, history >>

\* Lines 144-148 and 153: the directory exists and shutil.copy2 succeeds.
MainCopy ==
    /\ pc = "check"
    /\ appicon' = "directory"
    /\ fs' = [fs EXCEPT !.files = @ \cup {DestPath}]
    /\ printed' = printed \o << "copied", "complete" >>
    /\ exit_status' = 0
    /\ pc' = "done"
    /\ UNCHANGED << entry, size, output_dir, center, max_radius, line_width,
                    img, canvas, i, points, ops, icon_path, history >>

\* Lines 144-147: os.path.exists is true, but the path is not a directory the
\* process can write into; shutil.copy2 raises and nothing catches it.
MainCopyRaises ==
    /\ pc = "check"
    /\ appicon' = "unwritable"
    /\ printed' = Append(printed, "traceback")
    /\ exit_status' = 1
    /\ pc' = "done"
    /\ UNCHANGED << entry, size, output_dir, center, max_radius, line_width,
                    img, canvas, i, points, ops, fs, icon_path, history >>

\* The existence test inverted: the copy is attempted into the missing
\* directory and shutil.copy2 raises.
MainMissingCopies ==
    /\ pc = "check"
    /\ appicon' = "absent"
    /\ printed' = Append(printed, "traceback")
    /\ exit_status' = 1
    /\ pc' = "done"
    /\ UNCHANGED << entry, size, output_dir, center, max_radius, line_width,
                    img, canvas, i, points, ops, fs, icon_path, history >>

\* Lines 149-153: the directory does not exist.
MainMissing ==
    /\ pc = "check"
    /\ appicon' = "absent"
    /\ printed' = printed \o << "not_found", "copy_manually", "complete" >>
    /\ exit_status' = 0
    /\ pc' = "done"
    /\ UNCHANGED << entry, size, output_dir, center, max_radius, line_width,
                    img, canvas, i, points, ops, fs, icon_path, history >>

(* -------------------------- specifications ----------------------------- *)

CallAny == \E d \in Dirs, S \in Sizes : Call(d, S)

Next ==
    \/ Main
    \/ CallAny
    \/ LayerStep
    \/ LayerBreak
    \/ SampleStep
    \/ StrokeStep
    \/ ConnectStep
    \/ Save
    \/ MainCopy
    \/ MainCopyRaises
    \/ MainMissing

Spec == Init /\ [][Next]_vars

\* A caller that calls generate_icon again after it returned.
CallAgain ==
    /\ pc = "returned"
    /\ history = {}
    /\ history' = {[size |-> size, dir |-> output_dir, points |-> points,
                     ops |-> ops, canvas |-> canvas]}
    /\ pc' = "start"
    /\ UNCHANGED << entry, size, output_dir, center, max_radius, line_width,
                    img, canvas, i, points, ops, fs, printed, appicon,
                    icon_path, exit_status >>

CallFew == \E d \in Dirs, S \in RerunSizes : Call(d, S)

NextRerun ==
    \/ CallFew
    \/ CallAgain
    \/ LayerStep
    \/ LayerBreak
    \/ SampleStep
    \/ StrokeStep
    \/ ConnectStep
    \/ Save

SpecRerun == Init /\ [][NextRerun]_vars

(* ------------------------------ claims --------------------------------- *)

LayerOps == SelectSeq(ops, LAMBDA o : OpPh(o) = "layer")

\* Background and curve are both drawn.
Drawn == pc \in {"save", "check", "returned", "done"}

Corners == {<<0, 0>>, <<0, size - 1>>, <<size - 1, 0>>, <<size - 1, size - 1>>}

\* The colour of the last layer the background loop drew.
InnermostColor == OpFill(LayerOps[Len(LayerOps)])

\* C1 as claimed: at size 1024, once background and curve are drawn, the center
\* pixel has the innermost layer's colour and every corner pixel has the base
\* fill colour and lies outside the circle of radius max_radius.
C1_AsClaimed ==
    (Drawn /\ size = RefSize) =>
        /\ canvas[<<center, center>>] = InnermostColor
        /\ \A c \in Corners :
              /\ canvas[c] = BaseFill
              /\ ~InCircle(c, center, center, max_radius)

\* C1 (amended): at size 1024, once background and curve are drawn, the center
\* pixel has the innermost layer's colour; every corner pixel has the colour
\* (99,102,241), and it lies inside the outermost layer (radius max_radius =
\* 737, whose colour is the base fill colour) and outside the next layer.
C1_CenterAndCorners ==
    (Drawn /\ size = RefSize) =>
        /\ canvas[<<center, center>>] = InnermostColor
        /\ InnermostColor = LayerColor(NumLayers - 1)
        /\ max_radius = 737
        /\ OpR(LayerOps[1]) = max_radius /\ OpFill(LayerOps[1]) = BaseFill
        /\ \A c \in Corners :
              /\ canvas[c] = BaseFill
              /\ InCircle(c, center, center, OpR(LayerOps[1]))
              /\ ~InCircle(c, center, center, OpR(LayerOps[2]))

C1_Witness ==
    /\ pc = "done"
    /\ size = RefSize
    /\ canvas[<<512, 512>>] = <<137, 92, 245>>
    /\ canvas[<<0, 0>>] = <<99, 102, 241>>
    /\ canvas[<<1023, 1023>>] = <<99, 102, 241>>

\* The sizes S and factors k with k * S = size.
Factorings == {<<S, size \div S>> : S \in {T \in Sizes : size >= T /\ size % T = 0}}

\* C2 as claimed: every coordinate computed at size k*S differs from k times
\* the coordinate computed at size S by at most 1 pixel.
C2_AsClaimed ==
    \A f \in Factorings : \A n \in DOMAIN points :
        /\ Abs(points[n][1] - f[2] * CoordX(n - 1, f[1])) <= 1
        /\ Abs(points[n][2] - f[2] * CoordY(n - 1, f[1])) <= 1

\* C2 (amended): every coordinate computed at size k*S is at least k times the
\* coordinate computed at size S and exceeds it by at most k - 1 pixels.
C2_ScaleWithinFactor ==
    \A f \in Factorings : \A n \in DOMAIN points :
        /\ points[n][1] - f[2] * CoordX(n - 1, f[1]) \in 0..(f[2] - 1)
        /\ points[n][2] - f[2] * CoordY(n - 1, f[1]) \in 0..(f[2] - 1)

C2_Witness ==
    /\ size = RefSize
    /\ Len(points) = NumPoints
    /\ \E n \in DOMAIN points : points[n][1] - 4 * CoordX(n - 1, 256) = 3
    /\ \E n \in DOMAIN points : points[n][1] - 2 * CoordX(n - 1, 512) = 1

SampleOps == SelectSeq(ops, LAMBDA o : OpPh(o) = "sample")

\* C3 as claimed: for every size, the width of the circle at sample 0 is
\* strictly less than the width of the circle at the midpoint sample.
C3_AsClaimed ==
    \A so \in {SampleOps} :
        Len(so) > NumPoints \div 2 =>
            /\ OpI(so[1]) = 0 /\ OpI(so[NumPoints \div 2 + 1]) = NumPoints \div 2
            /\ OpW(so[1]) < OpW(so[NumPoints \div 2 + 1])

\* C3 (amended): for every size S >= 64 (line_width >= 1), the width of the
\* circle at sample 0 is strictly less than the width at the midpoint sample.
C3_TaperFrom64 ==
    \A so \in {SampleOps} :
        (size >= 64 /\ Len(so) > NumPoints \div 2) =>
            /\ OpI(so[1]) = 0 /\ OpI(so[NumPoints \div 2 + 1]) = NumPoints \div 2
            /\ OpW(so[1]) < OpW(so[NumPoints \div 2 + 1])

C3_Witness ==
    /\ size = 64
    /\ pc = "returned"
    /\ \E so \in {SampleOps} :
           OpW(so[1]) = 0 /\ OpW(so[NumPoints \div 2 + 1]) = 1

InPrinted(m) == \E n \in DOMAIN printed : printed[n] = m

\* C4: when the asset directory does not exist, the run has written the
\* primary output file, has made no copy, has printed the warning and ends
\* with status 0, no exception propagating.
C4_MissingDirSucceeds ==
    (pc = "done" /\ appicon = "absent") =>
        /\ IconPath("icon_output", RefSize) \in fs.files
        /\ DestPath \notin fs.files
        /\ InPrinted("not_found")
        /\ ~InPrinted("copied")
        /\ ~InPrinted("traceback")
        /\ InPrinted("complete")
        /\ exit_status = 0

C4_Witness ==
    /\ pc = "done"
    /\ appicon = "absent"
    /\ fs.files = {<<"icon_output", "AppIcon", 1024, 1024>>}

\* C5 as claimed: every run of the entry path ends with status 0, and the
\* directory check changes nothing but the printed messages.
C5_AsClaimed ==
    pc = "done" =>
        /\ exit_status = 0
        /\ fs.files = {IconPath("icon_output", RefSize)}

\* C5 (amended): a run of the entry path ends with status 0 unless the copy
\* raises; the copy is made exactly when the directory exists and is
\* writable, and only the missing-directory branch leaves the files as
\* generate_icon left them.
C5_ExitAndCopy ==
    pc = "done" =>
        /\ exit_status = (IF appicon = "unwritable" THEN 1 ELSE 0)
        /\ DestPath \in fs.files <=> appicon = "directory"
        /\ InPrinted("copied") <=> appicon = "directory"
        /\ appicon = "absent" => fs.files = {IconPath("icon_output", RefSize)}
        /\ IconPath("icon_output", RefSize) \in fs.files

C5_Witness ==
    /\ pc = "done"
    /\ appicon = "directory"
    /\ exit_status = 0
    /\ DestPath \in fs.files

\* C6: the canvas created for size S has exactly S x S pixels in mode RGB, and
\* it keeps these dimensions and this mode through every drawing step up to
\* the save.
C6_CanvasShape ==
    pc \in {"layers", "sample", "stroke", "connect", "save", "check",
            "returned", "done"} =>
        /\ img.width = size
        /\ img.height = size
        /\ img.mode = "RGB"
        /\ \A p \in DOMAIN canvas : p[1] \in 0..(size - 1) /\ p[2] \in 0..(size - 1)
        /\ \A p \in DOMAIN canvas : Len(canvas[p]) = 3

C6_Witness ==
    /\ pc = "returned"
    /\ size = 63
    /\ img = [width |-> 63, height |-> 63, mode |-> "RGB"]
    /\ Len(ops) > NumPoints

IsPrefix(a, b) == Len(a) <= Len(b) /\ SubSeq(b, 1, Len(a)) = a

\* C7: a run of generate_icon with the same size as an earlier run computes
\* the same sample points and makes the same drawing operations in the same
\* order as that run did, step for step, and when it has returned it has made
\* the same sequence of operations and left the same canvas, whatever the
\* output directories of the two runs.
C7_Deterministic ==
    \A h \in history :
        h.size = size =>
            /\ IsPrefix(points, h.points)
            /\ IsPrefix(ops, h.ops)
            /\ pc = "returned" =>
                  h.points = points /\ h.ops = ops /\ h.canvas = canvas

C7_Witness ==
    /\ pc = "returned"
    /\ \E h \in history :
          /\ h.size = size
          /\ h.dir # output_dir
          /\ Len(h.ops) > NumPoints
          /\ h.ops = ops

\* Index in LayerOps of the last drawn layer whose circle contains pixel p
\* (0 when no layer contains it).
LayerOver(lo, p) ==
    LET cov == {k \in 1..Len(lo) : InCircle(p, OpX(lo[k]), OpY(lo[k]), OpR(lo[k]))}
    IN  IF cov = {} THEN 0 ELSE CHOOSE k \in cov : \A m \in cov : m <= k

Dist2(p) == (p[1] - center) * (p[1] - center) + (p[2] - center) * (p[2] - center)

\* The part of C8 that does not depend on how "shrinks" is read: layers are
\* drawn in index order from 0 with positive radius, the loop ends at the
\* first index whose radius is <= 0 (or after 30 layers), and right after the
\* loop every probe pixel has the colour of the highest-index drawn layer
\* containing it (the base fill colour if none), so that a pixel nearer the
\* center never belongs to a lower layer than a pixel farther away.
LayersComposed(lo) ==
    /\ \A k \in 1..Len(lo) :
          OpI(lo[k]) = k - 1 /\ OpR(lo[k]) > 0 /\ OpFill(lo[k]) = LayerColor(k - 1)
    /\ pc = "layers" => Len(lo) = i
    /\ pc \in {"sample", "stroke", "connect", "save", "check", "returned", "done"} =>
          \/ Len(lo) = NumLayers
          \/ Len(lo) < NumLayers /\ Radius(max_radius, Len(lo)) <= 0
    /\ (pc = "sample" /\ i = 0) =>
          \A over \in {[p \in DOMAIN canvas |-> LayerOver(lo, p)]} :
              /\ \A p \in DOMAIN canvas :
                    canvas[p] = IF over[p] = 0 THEN BaseFill ELSE OpFill(lo[over[p]])
              /\ \A p, q \in DOMAIN canvas :
                    Dist2(p) <= Dist2(q) => over[p] >= over[q]

\* C8 as claimed: the layer radius strictly shrinks with each successive
\* layer, and the layers compose as described.
C8_AsClaimed ==
    \A lo \in {LayerOps} :
        /\ \A k \in 1..(Len(lo) - 1) : OpR(lo[k + 1]) < OpR(lo[k])
        /\ LayersComposed(lo)

\* C8 (amended): the layer radius never grows from one layer to the next
\* (consecutive layers can have the same radius), and the layers compose as
\* described.
C8_LayersNested ==
    \A lo \in {LayerOps} :
        /\ \A k \in 1..(Len(lo) - 1) : OpR(lo[k + 1]) <= OpR(lo[k])
        /\ LayersComposed(lo)

C8_Witness ==
    /\ pc = "sample"
    /\ size = 10
    /\ \E lo \in {LayerOps} :
           /\ \E k \in 1..(Len(lo) - 1) : OpR(lo[k + 1]) = OpR(lo[k])
           /\ \E p, q \in DOMAIN canvas :
                 LayerOver(lo, p) > LayerOver(lo, q) /\ LayerOver(lo, q) > 0

\* Position of a stroke circle against the middle sample.
UpToMiddle(o) == OpI(o) * OpN(o) + OpJ(o) <= (NumPoints \div 2) * OpN(o)

FromMiddle(o) == OpI(o) * OpN(o) + OpJ(o) >= (NumPoints \div 2) * OpN(o)

\* Circle a directly precedes circle b along the stroke.
Tapered(a, b) ==
    /\ UpToMiddle(b) => OpW(a) <= OpW(b)
    /\ FromMiddle(a) => OpW(a) >= OpW(b)

\* C9: along the stroke, ordered by position, the width never decreases up to
\* the middle sample and never increases after it: this holds between each
\* circle and the next one along the stroke (sample i, its segment's sub-steps
\* 1..steps-1, sample i+1), and every sub-step width lies between the widths
\* of its segment's two end samples.
C9_WidthTapers ==
    \A nL \in {Len(LayerOps)}, nS \in {Len(SampleOps)} :
      LET sample(k) == ops[nL + k + 1]
      IN
        /\ \A k \in 0..(nS - 1) : OpPh(sample(k)) = "sample" /\ OpI(sample(k)) = k
        /\ \A k \in 1..(nS - 1) : Tapered(sample(k - 1), sample(k))
        /\ \A m \in (nL + nS + 1)..Len(ops) :
              LET o == ops[m]
                  a == sample(OpI(o))
                  b == sample(OpI(o) + 1)
              IN  /\ OpPh(o) = "sub"
                  /\ IF OpJ(o) = 1
                     THEN Tapered(a, o)
                     ELSE /\ OpI(ops[m - 1]) = OpI(o) /\ OpJ(ops[m - 1]) = OpJ(o) - 1
                          /\ Tapered(ops[m - 1], o)
                  /\ OpJ(o) = OpN(o) - 1 => Tapered(o, b)
                  /\ OpW(o) >= (IF OpW(a) <= OpW(b) THEN OpW(a) ELSE OpW(b))
                  /\ OpW(o) <= Max(OpW(a), OpW(b))

C9_Witness ==
    /\ pc = "returned"
    /\ size = RefSize
    /\ \E m \in DOMAIN ops :
          OpPh(ops[m]) = "sub" /\ OpI(ops[m]) = 9 /\ OpJ(ops[m]) = 7 /\ OpW(ops[m]) = 9
    /\ \E m \in DOMAIN ops :
          OpPh(ops[m]) = "sample" /\ OpI(ops[m]) = 10 /\ OpW(ops[m]) = 12
    /\ \E m \in DOMAIN ops :
          OpPh(ops[m]) = "sub" /\ OpI(ops[m]) = 140 /\ OpJ(ops[m]) = 1 /\ OpW(ops[m]) = 9
    /\ \E m \in DOMAIN ops :
          OpPh(ops[m]) = "sample" /\ OpI(ops[m]) = 140 /\ OpW(ops[m]) = 12

\* int((base_x + off) * scale) with base_x = 200 + 600 * (k / 150)
OffsetX(k, off, S) ==
    ((StartX + ((EndX - StartX) * k) \div NumPoints + off) * S) \div RefSize

\* int((base_y + off) * scale) with base_y = 750 - 500 * (k / 150), in thirds
OffsetY(k, off, S) ==
    ((3 * StartY + (3 * (EndY - StartY) * k) \div NumPoints + 3 * off) * S)
        \div (3 * RefSize)

\* C10: every circle center the curve draws, at the samples and at the
\* sub-steps, has both coordinates in 0..size-1; so has every sample computed
\* with the wave offsets at their bounds (+-80 in x, +-48 in y).
C10_CentersInside ==
    /\ \A n \in DOMAIN points :
          points[n][1] \in 0..(size - 1) /\ points[n][2] \in 0..(size - 1)
    /\ \A m \in DOMAIN ops :
          OpPh(ops[m]) # "layer" =>
              OpX(ops[m]) \in 0..(size - 1) /\ OpY(ops[m]) \in 0..(size - 1)
    /\ pc = "sample" =>
          \A sg \in {-1, 1} :
              /\ OffsetX(i, sg * WaveAmplitude, size) \in 0..(size - 1)
              /\ OffsetY(i, sg * ((WaveAmplitude * 6) \div 10), size) \in 0..(size - 1)

C10_Witness ==
    /\ pc = "returned"
    /\ size = 1
    /\ Len(points) = NumPoints
    /\ \E m \in DOMAIN ops : OpPh(ops[m]) = "sub" /\ OpX(ops[m]) = 0 /\ OpY(ops[m]) = 0

====
